---- MODULE Spec2Model ----
(***************************************************************************)
(* Tic-tac-toe (src/tic_tac_toe.py): the Grid board state, the exhaustive  *)
(* minimax search (minimax, find_best_move) and the game loop of           *)
(* TicTacToeUI.main.  Rendering (draw_grid, draw_move, display.flip) and   *)
(* the pygame lifecycle carry no state of the game and are left out.       *)
(***************************************************************************)
EXTENDS Integers, Sequences, FiniteSets, TLC

\* ------------------------------------------------------------------ values

\* Mark.X.value, Mark.O.value and the empty cell " "
X == "X"
O == "O"
Empty == " "
Mark == {X, O}
Cell == {Empty, X, O}

\* range(3)
Range3 == 0..2

\* best_move = None: the empty tuple, falsy like None in `if best_move:`
None == <<>>

\* -float("inf") and float("inf"): below and above every score
NegInf == -99
PosInf == 99

\* mouse_x // 100, mouse_y // 100 in a 300 x 300 window
CellSize == 100
WindowSize == 300

\* ------------------------------------------------------------------ Grid

\* Grid.__init__
NewGrid ==
  [board |-> [row \in Range3 |-> [col \in Range3 |-> Empty]],
   x_count |-> 0,
   o_count |-> 0]

is_valid_move(g, row, col) == g.board[row][col] = Empty

\* make_move with the counter of X incremented whatever the mark
make_move_counts_x(g, row, col, mark) ==
  IF ~is_valid_move(g, row, col)
  THEN [grid |-> g, raised |-> TRUE]
  ELSE [grid |-> [board |-> [g.board EXCEPT ![row][col] = mark],
                  x_count |-> g.x_count + 1,
                  o_count |-> g.o_count],
        raised |-> FALSE]

\* make_move with the cell written before the check
make_move_writes_first(g, row, col, mark) ==
  [grid |-> [board |-> [g.board EXCEPT ![row][col] = mark],
             x_count |-> IF mark = X THEN g.x_count + 1 ELSE g.x_count,
             o_count |-> IF mark = X THEN g.o_count ELSE g.o_count + 1],
   raised |-> ~is_valid_move(g, row, col)]

\* make_move: the grid it leaves, and whether it raised ValueError
make_move(g, row, col, mark) ==
  IF ~is_valid_move(g, row, col)
  THEN [grid |-> g, raised |-> TRUE]
  ELSE [grid |-> [board |-> [g.board EXCEPT ![row][col] = mark],
                  x_count |-> IF mark = X THEN g.x_count + 1 ELSE g.x_count,
                  o_count |-> IF mark = X THEN g.o_count ELSE g.o_count + 1],
        raised |-> FALSE]

\* undo_move with x_count decremented whatever the cell holds
undo_move_x_only(g, row, col) ==
  IF g.board[row][col] # Empty
  THEN [board |-> [g.board EXCEPT ![row][col] = Empty],
        x_count |-> g.x_count - 1,
        o_count |-> g.o_count]
  ELSE g

\* undo_move without the decrements: the cell is cleared, the counts stay
undo_move_keeps_counts(g, row, col) ==
  IF g.board[row][col] # Empty
  THEN [board |-> [g.board EXCEPT ![row][col] = Empty],
        x_count |-> g.x_count,
        o_count |-> g.o_count]
  ELSE g

\* undo_move without `self.board[row][col] = " "`: the count goes down, the
\* mark stays
undo_move_counts_only(g, row, col) ==
  IF g.board[row][col] # Empty
  THEN [board |-> g.board,
        x_count |-> IF g.board[row][col] = X THEN g.x_count - 1 ELSE g.x_count,
        o_count |-> IF g.board[row][col] = X THEN g.o_count ELSE g.o_count - 1]
  ELSE g

undo_move(g, row, col) ==
  IF g.board[row][col] # Empty
  THEN [board |-> [g.board EXCEPT ![row][col] = Empty],
        x_count |-> IF g.board[row][col] = X THEN g.x_count - 1 ELSE g.x_count,
        o_count |-> IF g.board[row][col] = X THEN g.o_count ELSE g.o_count - 1]
  ELSE g

\* is_terminal_state with the tests of the lines left out: only a full board
\* is terminal
is_terminal_state_full_only(g) ==
  \A row \in Range3 : \A col \in Range3 : g.board[row][col] # Empty

\* is_terminal_state without the test of the diagonal from (0, 2)
is_terminal_state_one_diagonal(g) ==
  LET b == g.board IN
  IF \E row \in Range3 :
       b[row][0] = b[row][1] /\ b[row][1] = b[row][2] /\ b[row][2] # Empty
  THEN TRUE
  ELSE IF \E col \in Range3 :
       b[0][col] = b[1][col] /\ b[1][col] = b[2][col] /\ b[2][col] # Empty
  THEN TRUE
  ELSE IF b[0][0] = b[1][1] /\ b[1][1] = b[2][2] /\ b[2][2] # Empty
  THEN TRUE
  ELSE \A row \in Range3 : \A col \in Range3 : b[row][col] # Empty

is_terminal_state(g) ==
  LET b == g.board IN
  IF \E row \in Range3 :
       b[row][0] = b[row][1] /\ b[row][1] = b[row][2] /\ b[row][2] # Empty
  THEN TRUE
  ELSE IF \E col \in Range3 :
       b[0][col] = b[1][col] /\ b[1][col] = b[2][col] /\ b[2][col] # Empty
  THEN TRUE
  ELSE IF b[0][0] = b[1][1] /\ b[1][1] = b[2][2] /\ b[2][2] # Empty
  THEN TRUE
  ELSE IF b[0][2] = b[1][1] /\ b[1][1] = b[2][0] /\ b[2][0] # Empty
  THEN TRUE
  ELSE \A row \in Range3 : \A col \in Range3 : b[row][col] # Empty

\* the four tests of evaluate's loop body for one mark
evaluate_mark(g, mark_value) ==
  LET b == g.board IN
  \/ \E row \in Range3 :
       b[row][0] = b[row][1] /\ b[row][1] = b[row][2] /\ b[row][2] = mark_value
  \/ \E col \in Range3 :
       b[0][col] = b[1][col] /\ b[1][col] = b[2][col] /\ b[2][col] = mark_value
  \/ b[0][0] = b[1][1] /\ b[1][1] = b[2][2] /\ b[2][2] = mark_value
  \/ b[0][2] = b[1][1] /\ b[1][1] = b[2][0] /\ b[2][0] = mark_value

\* evaluate with `return 0` inside the loop over the marks: only X is scanned
evaluate_x_only(g) ==
  IF evaluate_mark(g, X) THEN 1 ELSE 0

\* evaluate returning 1 for a line of either mark
evaluate_any_line(g) ==
  IF evaluate_mark(g, X) THEN 1
  ELSE IF evaluate_mark(g, O) THEN 1
  ELSE 0

\* for mark in (Mark.X, Mark.O): X is scanned first
evaluate(g) ==
  IF evaluate_mark(g, X) THEN 1
  ELSE IF evaluate_mark(g, O) THEN -1
  ELSE 0

max(a, b) == IF a >= b THEN a ELSE b
min(a, b) == IF a <= b THEN a ELSE b

\* ------------------------------------------------------------------ search, as functions

\* the loops without `if grid.is_valid_move(row, col)`: every cell from k on
ValidFrom_every_cell(g, k) == k..8

\* the cells, k = 3 * row + col, that pass is_valid_move from cell k on, which
\* is where the loops `for row in range(3): for col in range(3)` go
ValidFrom(g, k) == {j \in k..8 : is_valid_move(g, j \div 3, j % 3)}

SetMax(S) == CHOOSE x \in S : \A y \in S : x >= y
SetMin(S) == CHOOSE x \in S : \A y \in S : x <= y

\* minimax taking the max on both turns
RECURSIVE minimax_max_only(_, _, _)
minimax_max_only(g, depth, is_maximizing_player) ==
  IF is_terminal_state(g)
  THEN evaluate(g)
  ELSE SetMax({NegInf} \cup
              {minimax_max_only(make_move(g, k \div 3, k % 3,
                                          IF is_maximizing_player THEN X ELSE O).grid,
                                depth + 1, ~is_maximizing_player) :
                 k \in ValidFrom(g, 0)})

\* minimax as a function of the grid it is called on.  Each pass of the loops
\* makes a move, takes the value of the grid that gives and undoes the move,
\* so best_val ends as the max (min) of -inf (inf) and the values of the grids
\* one move away.  That the moves are undone is what the steps Enter and Loop
\* below model, move by move.
RECURSIVE minimax(_, _, _)
minimax(g, depth, is_maximizing_player) ==
  IF is_terminal_state(g)
  THEN evaluate(g)
  ELSE IF is_maximizing_player
  THEN SetMax({NegInf} \cup
              {minimax(make_move(g, k \div 3, k % 3, X).grid, depth + 1, FALSE) :
                 k \in ValidFrom(g, 0)})
  ELSE SetMin({PosInf} \cup
              {minimax(make_move(g, k \div 3, k % 3, O).grid, depth + 1, TRUE) :
                 k \in ValidFrom(g, 0)})

\* the loops of find_best_move with `val >= best_val`: the last best cell is kept
RECURSIVE find_best_move_loop_last(_, _, _, _)
find_best_move_loop_last(g, k, best_val, bm) ==
  IF k = 9
  THEN bm
  ELSE IF is_valid_move(g, k \div 3, k % 3)
  THEN LET val == minimax(make_move(g, k \div 3, k % 3, X).grid, 0, FALSE) IN
       IF val >= best_val
       THEN find_best_move_loop_last(g, k + 1, val, <<k \div 3, k % 3>>)
       ELSE find_best_move_loop_last(g, k + 1, best_val, bm)
  ELSE find_best_move_loop_last(g, k + 1, best_val, bm)

\* the loops of find_best_move with `val < best_val`
RECURSIVE find_best_move_loop_less(_, _, _, _)
find_best_move_loop_less(g, k, best_val, bm) ==
  IF k = 9
  THEN bm
  ELSE IF is_valid_move(g, k \div 3, k % 3)
  THEN LET val == minimax(make_move(g, k \div 3, k % 3, X).grid, 0, FALSE) IN
       IF val < best_val
       THEN find_best_move_loop_less(g, k + 1, val, <<k \div 3, k % 3>>)
       ELSE find_best_move_loop_less(g, k + 1, best_val, bm)
  ELSE find_best_move_loop_less(g, k + 1, best_val, bm)

\* the loops of find_best_move calling minimax(self.grid, 0, True)
RECURSIVE find_best_move_loop_maximizing(_, _, _, _)
find_best_move_loop_maximizing(g, k, best_val, bm) ==
  IF k = 9
  THEN bm
  ELSE IF is_valid_move(g, k \div 3, k % 3)
  THEN LET val == minimax(make_move(g, k \div 3, k % 3, X).grid, 0, TRUE) IN
       IF val > best_val
       THEN find_best_move_loop_maximizing(g, k + 1, val, <<k \div 3, k % 3>>)
       ELSE find_best_move_loop_maximizing(g, k + 1, best_val, bm)
  ELSE find_best_move_loop_maximizing(g, k + 1, best_val, bm)

\* the loops of find_best_move from cell k on, with best_val and best_move as
\* they stand
RECURSIVE find_best_move_loop(_, _, _, _)
find_best_move_loop(g, k, best_val, bm) ==
  IF k = 9
  THEN bm
  ELSE IF is_valid_move(g, k \div 3, k % 3)
  THEN LET val == minimax(make_move(g, k \div 3, k % 3, X).grid, 0, FALSE) IN
       IF val > best_val
       THEN find_best_move_loop(g, k + 1, val, <<k \div 3, k % 3>>)
       ELSE find_best_move_loop(g, k + 1, best_val, bm)
  ELSE find_best_move_loop(g, k + 1, best_val, bm)

find_best_move(g) == find_best_move_loop(g, 0, NegInf, None)

\* ------------------------------------------------------------------ state

VARIABLES
  grid,       \* the Grid object: board, x_count, o_count
  stack,      \* the active calls of find_best_move / minimax, innermost last
  pc,         \* where control is
  best_move,  \* what find_best_move returned
  ret_val,    \* what the outermost minimax call returned
  message,    \* what end_game printed
  call,       \* the outermost search call: its function and arguments
  last,       \* the last Grid method called directly: arguments, grid before
  turn        \* the mark that moves next when moves alternate

vars == <<grid, stack, pc, best_move, ret_val, message, call, last, turn>>

NoCall == [fn |-> "none", grid |-> NewGrid, is_maximizing_player |-> FALSE]
NoOp == [op |-> "none", row |-> 0, col |-> 0, mark |-> Empty,
         before |-> NewGrid, raised |-> FALSE]

\* ------------------------------------------------------------------ the game

\* pixel coordinates a click can have in the window
Pixels == {0, CellSize - 1, CellSize, 2 * CellSize - 1, 2 * CellSize, WindowSize - 1}

\* pygame.mouse.get_pos() to (row, col): row = mouse_y // 100, col = mouse_x // 100
ClickCells ==
  {<<mouse_y \div CellSize, mouse_x \div CellSize>> : mouse_x \in Pixels, mouse_y \in Pixels}

\* end_game without sys.exit(): the message is printed and the loop goes on
end_game_keeps_running(msg) ==
  /\ message' = msg
  /\ pc' = "idle"

\* end_game: print(message), then pygame.quit() and sys.exit()
end_game(msg) ==
  /\ message' = msg
  /\ pc' = "exited"

\* the handler from `if best_move:` on, with g the grid and bm the move
\* find_best_move returned
AfterSearch(g, bm) ==
  LET r == IF bm # None
           THEN make_move(g, bm[1], bm[2], X)
           ELSE [grid |-> g, raised |-> FALSE]
  IN /\ grid' = r.grid
     /\ IF r.raised
        THEN pc' = "ValueError" /\ UNCHANGED message
        ELSE IF is_terminal_state(r.grid)
        THEN IF evaluate(r.grid) = 1 THEN end_game("AI wins!")
             ELSE IF evaluate(r.grid) = -1 THEN end_game("Human wins!")
             ELSE end_game("Draw!")
        ELSE pc' = "idle" /\ UNCHANGED message

\* MOUSEBUTTONDOWN: the whole handler
Click(row, col) ==
  /\ pc = "idle"
  /\    /\ is_valid_move(grid, row, col)
        /\ LET r == make_move(grid, row, col, O) IN
           IF r.raised
           THEN grid' = r.grid /\ pc' = "ValueError" /\ UNCHANGED <<message, best_move>>
           ELSE IF is_terminal_state(r.grid)
           THEN grid' = r.grid /\ end_game("Human wins!") /\ UNCHANGED best_move
           ELSE LET bm == find_best_move(r.grid) IN
                best_move' = bm /\ AfterSearch(r.grid, bm)
  /\ UNCHANGED <<stack, ret_val, call, last, turn>>

\* pygame.QUIT
Quit ==
  /\ pc = "idle"
  /\ pc' = "exited"
  /\ UNCHANGED <<grid, stack, best_move, ret_val, message, call, last, turn>>

\* TicTacToeUI.__init__: a new Grid, nothing printed, the event loop waiting
Init ==
  /\ grid = NewGrid
  /\ stack = <<>>
  /\ pc = "idle"
  /\ best_move = None
  /\ ret_val = None
  /\ message = ""
  /\ call = NoCall
  /\ last = NoOp
  /\ turn = O

Next ==
  \/ \E cell \in ClickCells : Click(cell[1], cell[2])
  \/ Quit

Spec == Init /\ [][Next]_vars

\* a game in which the human clicks empty cells and never closes the window
NextClick == \E cell \in ClickCells : Click(cell[1], cell[2])

SpecClicks == Init /\ [][NextClick]_vars

\* ------------------------------------------------------------------ the game, as a function

\* the MOUSEBUTTONDOWN handler as a function of the grid and the cell
\* clicked: the grid it leaves and the message it printed ("" when the game
\* goes on)
click(g, row, col) ==
  IF ~is_valid_move(g, row, col)
  THEN [grid |-> g, message |-> ""]
  ELSE LET human == make_move(g, row, col, O).grid IN
       IF is_terminal_state(human)
       THEN [grid |-> human, message |-> "Human wins!"]
       ELSE LET bm == find_best_move(human)
                ai == IF bm # None
                      THEN make_move(human, bm[1], bm[2], X).grid
                      ELSE human
            IN IF is_terminal_state(ai)
               THEN [grid |-> ai,
                     message |-> IF evaluate(ai) = 1 THEN "AI wins!"
                                 ELSE IF evaluate(ai) = -1 THEN "Human wins!"
                                 ELSE "Draw!"]
               ELSE [grid |-> ai, message |-> ""]

\* the ends of all the games that go on from grid g: the final grid and the
\* message of each
RECURSIVE EndStates(_)
EndStates(g) ==
  UNION {LET r == click(g, k \div 3, k % 3) IN
         IF r.message # "" THEN {r} ELSE EndStates(r.grid) :
           k \in ValidFrom(g, 0)}

\* ------------------------------------------------------------------ search, step by step

\* the frame of a call that has entered its loops; (row, col) = (k \div 3, k % 3)
\* is the cell the loops are at
FindBestMoveFrame ==
  [fn |-> "find_best_move", k |-> 0, best_val |-> NegInf, best_move |-> None,
   depth |-> 0, is_maximizing_player |-> TRUE]

MinimaxFrame(depth, is_maximizing_player) ==
  [fn |-> "minimax", k |-> 0,
   best_val |-> IF is_maximizing_player THEN NegInf ELSE PosInf,
   best_move |-> None, depth |-> depth,
   is_maximizing_player |-> is_maximizing_player]

\* the mark the loops of frame f place: find_best_move and maximizing minimax
\* place X, minimizing minimax places O
FrameMark(f) == IF f.is_maximizing_player THEN X ELSE O

\* the arguments frame f passes to the minimax call it makes
CalleeDepth(f) == IF f.fn = "find_best_move" THEN 0 ELSE f.depth + 1
CalleeMaximizing(f) ==
  IF f.fn = "find_best_move" THEN FALSE ELSE ~f.is_maximizing_player

NextValid(g, k) == CHOOSE j \in ValidFrom(g, k) : \A i \in ValidFrom(g, k) : j <= i

\* the statements after undo_move with max(best_val, val) on both turns
AfterCall_max_always(f, val) ==
  IF f.fn = "find_best_move"
  THEN IF val > f.best_val
       THEN [f EXCEPT !.best_val = val,
                      !.best_move = <<f.k \div 3, f.k % 3>>,
                      !.k = f.k + 1]
       ELSE [f EXCEPT !.k = f.k + 1]
  ELSE [f EXCEPT !.best_val = max(f.best_val, val),
                 !.k = f.k + 1]

\* frame f after its minimax call returned val: the statements after undo_move
AfterCall(f, val) ==
  IF f.fn = "find_best_move"
  THEN IF val > f.best_val
       THEN [f EXCEPT !.best_val = val,
                      !.best_move = <<f.k \div 3, f.k % 3>>,
                      !.k = f.k + 1]
       ELSE [f EXCEPT !.k = f.k + 1]
  ELSE [f EXCEPT !.best_val = IF f.is_maximizing_player
                              THEN max(f.best_val, val)
                              ELSE min(f.best_val, val),
                 !.k = f.k + 1]

Top == stack[Len(stack)]
Pop == SubSeq(stack, 1, Len(stack) - 1)

\* a minimax call returns val to its caller, the top frame of rest: the caller
\* undoes its move and goes on with its loops; the outermost call is done
Return(rest, val) ==
  IF rest = <<>>
  THEN /\ ret_val' = val
       /\ stack' = <<>>
       /\ pc' = "done"
       /\ UNCHANGED grid
  ELSE LET f == rest[Len(rest)] IN
       /\ grid' = undo_move(grid, f.k \div 3, f.k % 3)
       /\ stack' = [rest EXCEPT ![Len(rest)] = AfterCall(f, val)]
       /\ pc' = "loop"
       /\ UNCHANGED ret_val

\* minimax is entered on the grid as it is: the base case, or into the loops
Enter ==
  /\ pc = "enter"
  /\ IF is_terminal_state(grid)
     THEN Return(stack, evaluate(grid))
     ELSE /\ stack' = Append(stack,
                 IF stack = <<>>
                 THEN MinimaxFrame(0, call.is_maximizing_player)
                 ELSE MinimaxFrame(CalleeDepth(Top), CalleeMaximizing(Top)))
          /\ pc' = "loop"
          /\ UNCHANGED <<grid, ret_val>>
  /\ UNCHANGED <<best_move, message, call, last, turn>>

\* the loops of the top frame: on to the next valid cell, make the move and
\* call minimax; or the loops are over and the call returns
Loop ==
  /\ pc = "loop"
  /\ IF ValidFrom(grid, Top.k) # {}
     THEN LET k == NextValid(grid, Top.k)
              r == make_move(grid, k \div 3, k % 3, FrameMark(Top))
          IN /\ grid' = r.grid
             /\ stack' = [stack EXCEPT ![Len(stack)].k = k]
             /\ pc' = IF r.raised THEN "ValueError" ELSE "enter"
             /\ UNCHANGED <<best_move, ret_val>>
     ELSE IF Top.fn = "find_best_move"
          THEN /\ best_move' = Top.best_move
               /\ stack' = Pop
               /\ pc' = "reply"
               /\ UNCHANGED <<grid, ret_val>>
          ELSE Return(Pop, Top.best_val) /\ UNCHANGED best_move
  /\ UNCHANGED <<message, call, last, turn>>

\* MOUSEBUTTONDOWN, up to the call of find_best_move
ClickStep(row, col) ==
  /\ pc = "idle"
  /\    /\ is_valid_move(grid, row, col)
        /\ LET r == make_move(grid, row, col, O) IN
           /\ grid' = r.grid
           /\ IF r.raised
              THEN pc' = "ValueError" /\ UNCHANGED <<stack, message, call>>
              ELSE IF is_terminal_state(r.grid)
              THEN end_game("Human wins!") /\ UNCHANGED <<stack, call>>
              ELSE /\ call' = [fn |-> "find_best_move", grid |-> r.grid,
                               is_maximizing_player |-> TRUE]
                   /\ stack' = <<FindBestMoveFrame>>
                   /\ pc' = "loop"
                   /\ UNCHANGED message
  /\ UNCHANGED <<best_move, ret_val, last, turn>>

\* the handler after find_best_move returned
Reply ==
  /\ pc = "reply"
  /\ AfterSearch(grid, best_move)
  /\ UNCHANGED <<stack, best_move, ret_val, call, last, turn>>

NextSteps ==
  \/ \E cell \in ClickCells : ClickStep(cell[1], cell[2])
  \/ Enter
  \/ Loop
  \/ Reply
  \/ Quit

SpecSteps == Init /\ [][NextSteps]_vars

\* the steps come to what the functions say
StepsAgree ==
  /\ pc = "reply" => best_move = find_best_move(call.grid) /\ grid = call.grid
  /\ pc = "done" =>
       /\ ret_val = minimax(call.grid, 0, call.is_maximizing_player)
       /\ grid = call.grid

\* ------------------------------------------------------------------ Grid, called directly

\* grid.make_move(row, col, mark) on any cell; a ValueError is caught and noted
MakeMove(row, col, mark) ==
  /\ pc = "idle"
  /\ LET r == make_move(grid, row, col, mark) IN
     /\ grid' = r.grid
     /\ last' = [op |-> "make_move", row |-> row, col |-> col, mark |-> mark,
                 before |-> grid, raised |-> r.raised]
  /\ UNCHANGED <<stack, pc, best_move, ret_val, message, call, turn>>

\* grid.undo_move(row, col) on any cell
UndoMove(row, col) ==
  /\ pc = "idle"
  /\ grid' = undo_move(grid, row, col)
  /\ last' = [op |-> "undo_move", row |-> row, col |-> col, mark |-> Empty,
              before |-> grid, raised |-> FALSE]
  /\ UNCHANGED <<stack, pc, best_move, ret_val, message, call, turn>>

NextGrid ==
  \/ \E row \in Range3, col \in Range3, mark \in Mark : MakeMove(row, col, mark)
  \/ \E row \in Range3, col \in Range3 : UndoMove(row, col)

SpecGrid == Init /\ [][NextGrid]_vars

\* ------------------------------------------------------------------ alternating play

Other(mark) == IF mark = X THEN O ELSE X

\* either mark may open; after that the marks alternate
InitPlay ==
  /\ grid = NewGrid
  /\ stack = <<>>
  /\ pc = "idle"
  /\ best_move = None
  /\ ret_val = None
  /\ message = ""
  /\ call = NoCall
  /\ last = NoOp
  /\ turn \in Mark

\* a legal move of the mark whose turn it is; play stops at a terminal board
Play(row, col) ==
  /\ pc = "idle"
  /\ ~is_terminal_state(grid)
  /\ is_valid_move(grid, row, col)
  /\ grid' = make_move(grid, row, col, turn).grid
  /\ turn' = Other(turn)
  /\ UNCHANGED <<stack, pc, best_move, ret_val, message, call, last>>

\* make_move on an empty cell with either mark ...
Apply(row, col, mark) ==
  /\ pc = "idle"
  /\ is_valid_move(grid, row, col)
  /\ LET r == make_move(grid, row, col, mark) IN
     /\ grid' = r.grid
     /\ last' = [op |-> "make_move", row |-> row, col |-> col, mark |-> mark,
                 before |-> grid, raised |-> r.raised]
  /\ pc' = "applied"
  /\ UNCHANGED <<stack, best_move, ret_val, message, call, turn>>

\* ... followed by undo_move on the same coordinates
Undo ==
  /\ pc = "applied"
  /\ grid' = undo_move(grid, last.row, last.col)
  /\ pc' = "undone"
  /\ UNCHANGED <<stack, best_move, ret_val, message, call, last, turn>>

NextPlay ==
  \/ \E row \in Range3, col \in Range3 : Play(row, col)
  \/ \E row \in Range3, col \in Range3, mark \in Mark : Apply(row, col, mark)
  \/ Undo

SpecPlay == InitPlay /\ [][NextPlay]_vars

\* ------------------------------------------------------------------ the search on boards of play

\* minimax is called directly on boards with at most this many marks
MaxValueMarks == 0

\* find_best_move(grid) with X to move
FindBestMove ==
  /\ pc = "idle"
  /\ turn = X
  /\ call' = [fn |-> "find_best_move", grid |-> grid, is_maximizing_player |-> TRUE]
  /\ best_move' = find_best_move(grid)
  /\ pc' = "reply"
  /\ UNCHANGED <<grid, stack, ret_val, message, last, turn>>

\* minimax(grid, 0, is_maximizing_player), maximizing when X is to move
Minimax ==
  /\ pc = "idle"
  /\ grid.x_count + grid.o_count <= MaxValueMarks
  /\ call' = [fn |-> "minimax", grid |-> grid, is_maximizing_player |-> (turn = X)]
  /\ ret_val' = minimax(grid, 0, turn = X)
  /\ pc' = "done"
  /\ UNCHANGED <<grid, stack, best_move, message, last, turn>>

NextSearch ==
  \/ \E row \in Range3, col \in Range3 : Play(row, col)
  \/ FindBestMove
  \/ Minimax

SpecSearch == InitPlay /\ [][NextSearch]_vars

\* ------------------------------------------------------------------ the search on any board

\* find_best_move is called on boards with at most this many empty cells
MaxSearchEmpty == 8

CountOf(b, mark) ==
  Cardinality({k \in 0..8 : b[k \div 3][k % 3] = mark})

\* every board a Grid can hold after make_move and undo_move calls, with its counts
BoundedGrids ==
  {[board |-> b, x_count |-> CountOf(b, X), o_count |-> CountOf(b, O)] :
     b \in {c \in [Range3 -> [Range3 -> Cell]] : CountOf(c, Empty) <= MaxSearchEmpty}}

InitBoards ==
  /\ grid \in BoundedGrids
  /\ stack = <<>>
  /\ pc = "idle"
  /\ best_move = None
  /\ ret_val = None
  /\ message = ""
  /\ call = NoCall
  /\ last = NoOp
  /\ turn = X

NextBoards == FindBestMove

SpecBoards == InitBoards /\ [][NextBoards]_vars

\* ------------------------------------------------------------------ the search on boards of play, step by step

\* the search is entered on boards of play with at most this many empty cells
MaxNestEmpty == 4

\* find_best_move(grid) is called with X to move
CallFindBestMove ==
  /\ pc = "idle"
  /\ turn = X
  /\ Cardinality(ValidFrom(grid, 0)) <= MaxNestEmpty
  /\ call' = [fn |-> "find_best_move", grid |-> grid, is_maximizing_player |-> TRUE]
  /\ stack' = <<FindBestMoveFrame>>
  /\ pc' = "loop"
  /\ UNCHANGED <<grid, best_move, ret_val, message, last, turn>>

\* minimax(grid, 0, is_maximizing_player) is called, maximizing when X is to move
CallMinimax ==
  /\ pc = "idle"
  /\ Cardinality(ValidFrom(grid, 0)) <= MaxNestEmpty
  /\ call' = [fn |-> "minimax", grid |-> grid, is_maximizing_player |-> (turn = X)]
  /\ stack' = <<>>
  /\ pc' = "enter"
  /\ UNCHANGED <<grid, best_move, ret_val, message, last, turn>>

NextNest ==
  \/ \E row \in Range3, col \in Range3 : Play(row, col)
  \/ CallFindBestMove
  \/ CallMinimax
  \/ Enter
  \/ Loop

SpecNest == InitPlay /\ [][NextNest]_vars

\* ------------------------------------------------------------------ properties

\* the 8 lines of the board: 3 rows, 3 columns, 2 diagonals, each as its cells
Lines ==
  {{<<row, col>> : col \in Range3} : row \in Range3}
  \cup {{<<row, col>> : row \in Range3} : col \in Range3}
  \cup {{<<i, i>> : i \in Range3}, {<<i, 2 - i>> : i \in Range3}}

\* board b holds mark on every cell of some line
HasLine(b, mark) == \E L \in Lines : \A p \in L : b[p[1]][p[2]] = mark

\* board b has no empty cell
Full(b) == \A row \in Range3, col \in Range3 : b[row][col] # Empty

CellOf(k) == <<k \div 3, k % 3>>

\* the first empty cell of g in row-major order
FirstEmpty(g) == CellOf(SetMin(ValidFrom(g, 0)))

\* v(row, col): the value minimax gives, minimizing, to g with X placed on cell k
ValueAfterX(g, k) == minimax(make_move(g, k \div 3, k % 3, X).grid, 0, FALSE)

\* the first cell in row-major order whose v is the maximum of v over the empty cells
FirstBest(g) ==
  LET top == SetMax({ValueAfterX(g, k) : k \in ValidFrom(g, 0)})
  IN CellOf(SetMin({k \in ValidFrom(g, 0) : ValueAfterX(g, k) = top}))

\* the empty cells of g where mark would complete a line
Threats(g, mark) ==
  {k \in ValidFrom(g, 0) :
     \E L \in Lines : /\ CellOf(k) \in L
                      /\ \A p \in L \ {CellOf(k)} : g.board[p[1]][p[2]] = mark}

\* O threatens exactly one cell and X can complete no line
BlockCase(g) ==
  /\ ~is_terminal_state(g)
  /\ Cardinality(Threats(g, O)) = 1
  /\ Threats(g, X) = {}

TheBlock(g) == CHOOSE k \in Threats(g, O) : TRUE

\* C1: on every board of alternating play, make_move on an empty cell with
\* either mark followed by undo_move on the same cell leaves the nine cells,
\* x_count and o_count as they were before make_move
C1_ApplyUndoRestores == pc = "undone" => grid = last.before

C1_Witness ==
  /\ pc = "undone"
  /\ last.mark = O
  /\ last.before.x_count = 2
  /\ last.before.o_count = 2
  /\ grid = last.before

\* C2: for every assignment of the nine cells, is_terminal_state is true
\* exactly when no cell is empty or one of the 8 lines holds one mark three times
C2_TerminalIffFullOrLine ==
  is_terminal_state(grid) <=>
    (Full(grid.board) \/ \E mark \in Mark : HasLine(grid.board, mark))

C2_Witness ==
  /\ is_terminal_state(grid)
  /\ Full(grid.board)
  /\ \A mark \in Mark : ~HasLine(grid.board, mark)

\* C3: on every terminal board of alternating play that stops at the first
\* terminal board, evaluate is +1 exactly when a line is all X, -1 exactly
\* when a line is all O, and 0 when the board is full with no line
C3_EvaluateTerminal ==
  (pc = "idle" /\ is_terminal_state(grid)) =>
    /\ evaluate(grid) = 1 <=> HasLine(grid.board, X)
    /\ evaluate(grid) = -1 <=> HasLine(grid.board, O)
    /\ (Full(grid.board) /\ \A mark \in Mark : ~HasLine(grid.board, mark))
         => evaluate(grid) = 0

C3_Witness ==
  /\ pc = "idle"
  /\ is_terminal_state(grid)
  /\ HasLine(grid.board, O)
  /\ evaluate(grid) = -1

\* C4: find_best_move returns the first empty cell in row-major order whose
\* value v is the maximum of v over the empty cells, and None exactly when
\* the board has no empty cell
C4_FirstBestCell ==
  pc = "reply" =>
    IF ValidFrom(call.grid, 0) = {}
    THEN best_move = None
    ELSE best_move = FirstBest(call.grid)

\* a tie for the maximum, with the first best cell not the first empty cell
C4_Witness ==
  /\ pc = "reply"
  /\ best_move # None
  /\ best_move # FirstEmpty(call.grid)
  /\ \E k \in ValidFrom(call.grid, 0) :
       /\ CellOf(k) # best_move
       /\ ValueAfterX(call.grid, k) =
            ValueAfterX(call.grid, 3 * best_move[1] + best_move[2])

\* C5: on the empty board minimax, maximizing, returns 0, and the cell
\* find_best_move returns leads to a board whose value, minimizing, is 0
C5_EmptyBoardDraw ==
  /\ (pc = "done" /\ call.grid = NewGrid /\ call.is_maximizing_player)
       => ret_val = 0
  /\ (pc = "reply" /\ call.grid = NewGrid)
       => /\ best_move # None
          /\ minimax(make_move(NewGrid, best_move[1], best_move[2], X).grid,
                     0, FALSE) = 0

C5_Witness ==
  /\ pc = "reply"
  /\ call.grid = NewGrid
  /\ best_move = <<0, 0>>

\* C6: the message printed when the game ends is the one evaluate of the
\* final board stands for: "AI wins!" only at +1, "Human wins!" only at -1,
\* "Draw!" only at 0
C6_MessageIsEvaluate ==
  /\ message = "AI wins!" => evaluate(grid) = 1
  /\ message = "Human wins!" => evaluate(grid) = -1
  /\ message = "Draw!" => evaluate(grid) = 0

\* C7 as stated: in every state of a game and of the searches it calls,
\* x_count - o_count is 0 or 1
C7_XLeadsByZeroOrOne == grid.x_count - grid.o_count \in {0, 1}

\* C7 amended: in every state of a game and of the searches it calls,
\* x_count - o_count is -1 or 0 (the human's O moves first)
C7_OLeadsByZeroOrOne == grid.x_count - grid.o_count \in {-1, 0}

\* inside minimax called from a game, after a move of X and after a move of O
C7_Witness ==
  /\ pc = "enter"
  /\ Len(stack) = 2
  /\ grid.x_count = 1
  /\ grid.o_count = 2

\* C8 as stated: when O threatens exactly one cell and X can complete no
\* line, find_best_move returns the threatened cell
C8_AlwaysBlocks ==
  (pc = "reply" /\ BlockCase(call.grid)) =>
    best_move = CellOf(TheBlock(call.grid))

\* C8 amended: when O threatens exactly one cell and X can complete no line,
\* find_best_move returns the threatened cell if the board after the block
\* has value 0 or +1, and the first empty cell in row-major order if that
\* board has value -1
C8_BlocksUnlessLost ==
  (pc = "reply" /\ BlockCase(call.grid)) =>
    IF ValueAfterX(call.grid, TheBlock(call.grid)) >= 0
    THEN best_move = CellOf(TheBlock(call.grid))
    ELSE best_move = FirstEmpty(call.grid)

C8_Witness ==
  /\ pc = "reply"
  /\ BlockCase(call.grid)
  /\ ValueAfterX(call.grid, TheBlock(call.grid)) >= 0
  /\ best_move = CellOf(TheBlock(call.grid))
  /\ best_move # FirstEmpty(call.grid)

\* the board of C9: X at (0,0) and (0,1), O at (1,0) and (1,1)
ScenarioBoard ==
  [NewGrid.board EXCEPT ![0][0] = X, ![0][1] = X, ![1][0] = O, ![1][1] = O]

\* C9: on the board with X at (0,0), (0,1) and O at (1,0), (1,1),
\* find_best_move returns (0,2)
C9_CompletesRow ==
  (pc = "reply" /\ call.grid.board = ScenarioBoard) => best_move = <<0, 2>>

C9_Witness ==
  /\ pc = "reply"
  /\ call.grid.board = ScenarioBoard
  /\ call.grid.x_count = 2
  /\ best_move = <<0, 2>>

\* C10: make_move on an occupied cell, with either mark, raises ValueError
\* and leaves the nine cells, x_count and o_count unchanged; on an empty cell
\* it raises nothing
C10_RaisesIffOccupied ==
  last.op = "make_move" =>
    /\ last.raised <=> last.before.board[last.row][last.col] # Empty
    /\ last.raised => grid = last.before

C10_Witness ==
  /\ last.op = "make_move"
  /\ last.raised
  /\ last.before.board[last.row][last.col] # last.mark
  /\ grid = last.before

\* C11: in a game no make_move raises ValueError: the human's move, the AI's
\* move and every move of find_best_move / minimax is made on an empty cell
C11_NeverRaises == pc # "ValueError"

\* the human's O, then X of find_best_move, O and X of two nested minimax calls
C11_Witness ==
  /\ pc = "enter"
  /\ Len(stack) = 3
  /\ grid.x_count = 2
  /\ grid.o_count = 2

\* the calls that have made a move and not yet undone it: every frame of the
\* stack, but for the top one when it is between two moves
ActiveFrames == IF pc = "loop" THEN Len(stack) - 1 ELSE Len(stack)

\* g with the moves of the first n frames of the stack made on it
RECURSIVE WithMoves(_, _)
WithMoves(g, n) ==
  IF n = 0
  THEN g
  ELSE make_move(WithMoves(g, n - 1), stack[n].k \div 3, stack[n].k % 3,
                 FrameMark(stack[n])).grid

\* C12: make_move and undo_move are strictly nested in the search: at every
\* point the grid is the grid the outermost call was entered on with exactly
\* the moves of the calls still active, each on a cell that was empty, so when
\* a call returns the nine cells, x_count and o_count are as it found them
C12_StrictlyNested ==
  call.fn # "none" =>
    /\ grid = WithMoves(call.grid, ActiveFrames)
    /\ \A n \in 1..ActiveFrames :
         is_valid_move(WithMoves(call.grid, n - 1), stack[n].k \div 3, stack[n].k % 3)
    /\ pc \in {"done", "reply"} => stack = <<>> /\ grid = call.grid

\* find_best_move has returned a cell on a board of four empty cells
C12_Witness ==
  /\ pc = "reply"
  /\ call.fn = "find_best_move"
  /\ Cardinality(ValidFrom(call.grid, 0)) = 4
  /\ best_move # None
  /\ grid = call.grid

\* the value of the game on g with X (x_to_move) or O to move: evaluate on a
\* terminal board, else the max (min) over the empty cells of the value after
\* placing X (O)
RECURSIVE GameValue(_, _)
GameValue(g, x_to_move) ==
  IF is_terminal_state(g)
  THEN evaluate(g)
  ELSE IF x_to_move
  THEN SetMax({GameValue(make_move(g, k \div 3, k % 3, X).grid, FALSE) :
                 k \in ValidFrom(g, 0)})
  ELSE SetMin({GameValue(make_move(g, k \div 3, k % 3, O).grid, TRUE) :
                 k \in ValidFrom(g, 0)})

\* C13: on every board of alternating play minimax returns -1, 0 or 1, the
\* value of the game on that board for the player to move
C13_MinimaxIsGameValue ==
  pc = "done" =>
    /\ ret_val \in {-1, 0, 1}
    /\ ret_val = GameValue(call.grid, call.is_maximizing_player)

\* minimax, maximizing, returned -1 on a board that is not terminal
C13_Witness ==
  /\ pc = "done"
  /\ call.is_maximizing_player
  /\ ~is_terminal_state(call.grid)
  /\ ret_val = -1

\* C14: in every state of a game and of the searches it calls at most one
\* mark holds a line, so evaluate gives the same result with O scanned first
C14_OneWinnerAtMost ==
  /\ ~(HasLine(grid.board, X) /\ HasLine(grid.board, O))
  /\ evaluate(grid) = IF evaluate_mark(grid, O) THEN -1
                       ELSE IF evaluate_mark(grid, X) THEN 1
                       ELSE 0

\* inside the search of a game, on a board where O holds a line
C14_Witness ==
  /\ pc = "enter"
  /\ Len(stack) >= 2
  /\ HasLine(grid.board, O)
  /\ evaluate(grid) = -1

\* C15: every step of a game that places the human's O either ends the game
\* on that move or is answered by exactly one X: find_best_move is called on
\* the board right after the human's move, which is not terminal and has an
\* empty cell, and the cell it returns is not None, is empty, and gets the X
C15_EveryMoveAnswered ==
  [][grid' # grid =>
       \E row \in Range3, col \in Range3 :
         /\ is_valid_move(grid, row, col)
         /\ LET human == make_move(grid, row, col, O).grid IN
            IF is_terminal_state(human)
            THEN grid' = human /\ best_move' = best_move
            ELSE /\ ValidFrom(human, 0) # {}
                 /\ best_move' # None
                 /\ is_valid_move(human, best_move'[1], best_move'[2])
                 /\ grid' = make_move(human, best_move'[1], best_move'[2], X).grid
                 /\ grid'.x_count = grid.x_count + 1
                 /\ grid'.o_count = grid.o_count + 1]_vars

\* three human moves, each answered by one X
C15_Witness ==
  /\ pc = "idle"
  /\ best_move # None
  /\ grid.board[best_move[1]][best_move[2]] = X
  /\ grid.o_count = 3
  /\ grid.x_count = 3

\* the game's steps are what click gives
ClickAgrees ==
  [][grid' # grid =>
       \E row \in Range3, col \in Range3 :
         /\ is_valid_move(grid, row, col)
         /\ click(grid, row, col) = [grid |-> grid', message |-> message']]_vars

\* C16 as stated: of the games that go on from the new grid, one ends right
\* after a human move that completed a line of O
C16_HumanLineEndExists ==
  (pc = "idle" /\ grid = NewGrid) =>
    \E end \in EndStates(grid) :
      /\ end.message = "Human wins!"
      /\ end.grid.o_count = end.grid.x_count + 1
      /\ HasLine(end.grid.board, O)

\* C16 amended: a game that ends right after a human move ends on a full
\* board with no line of either mark: the human never completes a line
C16_HumanEndIsFullBoard ==
  (pc = "exited" /\ grid.o_count = grid.x_count + 1) =>
    /\ message = "Human wins!"
    /\ Full(grid.board)
    /\ \A mark \in Mark : ~HasLine(grid.board, mark)

C16_Witness ==
  /\ pc = "exited"
  /\ message = "Human wins!"
  /\ grid.o_count = 5
  /\ grid.x_count = 4
  /\ Full(grid.board)

\* C17 as stated: of the games that go on from the new grid, one ends right
\* after an AI move with "AI wins!" on a line of X, and one ends right after
\* an AI move with "Draw!" on a terminal board with no line
C17_AIWinAndDrawEndsExist ==
  (pc = "idle" /\ grid = NewGrid) =>
    /\ \E end \in EndStates(grid) :
         /\ end.message = "AI wins!"
         /\ end.grid.x_count = end.grid.o_count
         /\ HasLine(end.grid.board, X)
    /\ \E end \in EndStates(grid) :
         /\ end.message = "Draw!"
         /\ end.grid.x_count = end.grid.o_count
         /\ evaluate(end.grid) = 0

\* C17 amended: a game ends right after an AI move exactly when X has
\* completed a line, with "AI wins!"; "Draw!" is never printed, since after
\* an AI move the board holds an even number of marks and is not full
C17_AIEndIsAIWin ==
  /\ HasLine(grid.board, X) <=> message = "AI wins!"
  /\ message = "AI wins!" => pc = "exited" /\ grid.x_count = grid.o_count
  /\ (pc = "exited" /\ message # "" /\ grid.x_count = grid.o_count)
       => message = "AI wins!"
  /\ grid.x_count = grid.o_count => ~Full(grid.board)
  /\ message # "Draw!"

C17_Witness ==
  /\ pc = "exited"
  /\ message = "AI wins!"
  /\ HasLine(grid.board, X)
  /\ grid.x_count = grid.o_count

\* C19: at no point of a game does the board hold a line of O: evaluate is
\* never -1
C19_AINeverLoses ==
  /\ ~HasLine(grid.board, O)
  /\ evaluate(grid) # -1

\* the AI's last X stands on a line whose two other cells hold O, and O
\* threatens no cell
C19_Witness ==
  /\ pc = "idle"
  /\ best_move # None
  /\ \E L \in Lines :
       /\ best_move \in L
       /\ \A p \in L \ {best_move} : grid.board[p[1]][p[2]] = O
  /\ Threats(grid, O) = {}
  /\ evaluate(grid) = 0

\* C18: after any sequence of make_move and undo_move calls on a new Grid,
\* x_count is the number of cells holding X and o_count the number holding O
C18_CountsAreCellCounts ==
  /\ grid.x_count = CountOf(grid.board, X)
  /\ grid.o_count = CountOf(grid.board, O)

\* undo_move has just cleared a cell of a grid holding marks of both kinds
C18_Witness ==
  /\ last.op = "undo_move"
  /\ last.before.board[last.row][last.col] = O
  /\ grid.o_count = last.before.o_count - 1
  /\ grid.x_count = 2
  /\ grid.o_count = 1
  /\ CountOf(grid.board, X) = 2

\* the number of marks on the board
Marks(g) == g.x_count + g.o_count

\* C20: a game in which the human keeps clicking empty cells ends after at
\* most 5 human moves and 9 marks: it starts with an empty cell to click;
\* every click is made on a board that is not terminal and adds one O and
\* at most one X; there are never more than 5 O or 9 marks; after a click
\* the game has ended, with a report of end_game, exactly when the board is
\* terminal, and otherwise there is an empty cell to click
C20_GameTerminates ==
  /\ pc = "idle" /\ ~is_terminal_state(grid) /\ ValidFrom(grid, 0) # {}
  /\ [][/\ ~is_terminal_state(grid)
        /\ grid'.o_count = grid.o_count + 1
        /\ Marks(grid') > Marks(grid)
        /\ grid'.o_count <= 5
        /\ Marks(grid') <= 9
        /\ is_terminal_state(grid') <=> pc' = "exited"
        /\ pc' = "exited" <=> message' # ""
        /\ pc' # "exited" => pc' = "idle" /\ ValidFrom(grid', 0) # {}]_vars

\* a game ended by the human's fifth move, on a board of 9 marks
C20_Witness ==
  /\ pc = "exited"
  /\ message # ""
  /\ is_terminal_state(grid)
  /\ grid.o_count = 5
  /\ Marks(grid) = 9

====
